---------------------------- MODULE Spec2Model ----------------------------
(***************************************************************************)
(* A model of snake_py: the A* path search (astar_pathfinding.py), the     *)
(* move policy built on it (SnakeAI), the game that consumes the chosen    *)
(* move (snake_ai.py) and the manual game (Snake.py).                      *)
(*                                                                         *)
(* Positions are pixel pairs <<x, y>> as in the code; cells are grid pairs *)
(* obtained with pixel_to_grid.  Python's None is the empty tuple: a path  *)
(* returned by find_path is never the empty list, and an optional node is  *)
(* a tuple of zero or one node.                                            *)
(***************************************************************************)
EXTENDS Integers, Sequences, FiniteSets, TLC

\* ------------------------------------------------------------------ bounds
\* The code's window is 720 x 480 pixels (72 x 48 cells); the model plays the
\* game in a smaller window of MaxCols x MaxRows cells, which holds the
\* initial snake (head at cell (10, 5)), for at most MaxTicks ticks after a
\* reset.
MaxCols == 11
MaxRows == 6
MaxTicks == 4

\* ------------------------------------------------------- program constants
cell_size == 10

None == << >>

\* AStarPathfinder's fields grid_cols and grid_rows (set once by __init__),
\* the game's state (SnakeGame's fields), and the call under examination.
VARIABLES
    grid_cols, grid_rows,
    snake_position, snake_body, fruit_position,
    direction, change_to, score, game_mode, game_over_state,
    ticks,
    pc, call, search, ai_direction

pathfinderVars == << grid_cols, grid_rows >>
gameVars == << snake_position, snake_body, fruit_position,
               direction, change_to, score, game_mode, game_over_state, ticks >>
callVars == << pc, call, search, ai_direction >>
vars == << pathfinderVars, gameVars, callVars >>

\* The window (self.window_x, self.window_y).  The pathfinder's grid is the
\* window divided by the cell size (SnakeAI(self.window_x, self.window_y)) and
\* every window modelled is a whole number of cells, as 720 x 480 is.
window_x == grid_cols * cell_size
window_y == grid_rows * cell_size

\* ------------------------------------------------------------ Grid Mapper
pixel_to_grid(x, y) == << x \div cell_size, y \div cell_size >>

\* Mutant: the pixel is the centre of the cell, not its corner.
grid_to_pixel_centered(grid_x, grid_y) ==
    << grid_x * cell_size + cell_size \div 2, grid_y * cell_size + cell_size \div 2 >>

grid_to_pixel(grid_x, grid_y) == << grid_x * cell_size, grid_y * cell_size >>

\* ------------------------------------------------------------------- Node
Node(x, y) ==
    [x |-> x, y |-> y, g_cost |-> 0, h_cost |-> 0, f_cost |-> 0, parent |-> None]

\* Mutant: the comparison is reversed (the heap yields the highest f_cost).
NodeLt_reversed(a, b) == a.f_cost > b.f_cost

\* Node.__lt__: only f_cost is compared.
NodeLt(a, b) == a.f_cost < b.f_cost

\* Node.__eq__: coordinates only.
NodeEq(a, b) == a.x = b.x /\ a.y = b.y

abs(n) == IF n < 0 THEN -n ELSE n

manhattan_distance(node1, node2) == abs(node1.x - node2.x) + abs(node1.y - node2.y)

\* ------------------------------------------------------------------ heapq
\* The binary heap of Python's heapq on a list; list index i is heap[i + 1].
RECURSIVE SiftDownLoop(_, _, _, _)
SiftDownLoop(heap, startpos, pos, newitem) ==
    IF pos > startpos
    THEN LET parentpos == (pos - 1) \div 2
             parent    == heap[parentpos + 1]
         IN  IF NodeLt(newitem, parent)
             THEN SiftDownLoop([heap EXCEPT ![pos + 1] = parent],
                               startpos, parentpos, newitem)
             ELSE [heap EXCEPT ![pos + 1] = newitem]
    ELSE [heap EXCEPT ![pos + 1] = newitem]

siftdown(heap, startpos, pos) == SiftDownLoop(heap, startpos, pos, heap[pos + 1])

RECURSIVE SiftUpLoop(_, _, _, _)
SiftUpLoop(heap, startpos, pos, newitem) ==
    LET endpos   == Len(heap)
        childpos == 2 * pos + 1
    IN  IF childpos < endpos
        THEN LET rightpos == childpos + 1
                 c == IF rightpos < endpos
                         /\ ~NodeLt(heap[childpos + 1], heap[rightpos + 1])
                      THEN rightpos ELSE childpos
             IN  SiftUpLoop([heap EXCEPT ![pos + 1] = heap[c + 1]],
                            startpos, c, newitem)
        ELSE SiftDownLoop([heap EXCEPT ![pos + 1] = newitem],
                          startpos, pos, newitem)

siftup(heap, pos) == SiftUpLoop(heap, pos, pos, heap[pos + 1])

heappush(heap, item) == siftdown(Append(heap, item), 0, Len(heap))

\* heappop returns the smallest item and leaves the rest a heap.
heappop(heap) ==
    LET lastelt == heap[Len(heap)]
        rest    == SubSeq(heap, 1, Len(heap) - 1)
    IN  IF Len(rest) > 0
        THEN [item |-> rest[1], heap |-> siftup([rest EXCEPT ![1] = lastelt], 0)]
        ELSE [item |-> lastelt, heap |-> rest]

\* -------------------------------------------------------- AStarPathfinder
InGrid(x, y) == 0 <= x /\ x < grid_cols /\ 0 <= y /\ y < grid_rows

directions == << <<-1, 0>>, <<1, 0>>, <<0, -1>>, <<0, 1>> >>

\* Mutant: the last direction (down) is missing.
get_neighbors_no_down(node) ==
    LET cand == [i \in 1..3 |-> Node(node.x + directions[i][1],
                                     node.y + directions[i][2])]
    IN  SelectSeq(cand, LAMBDA n : InGrid(n.x, n.y))

get_neighbors(node) ==
    LET cand == [i \in 1..4 |-> Node(node.x + directions[i][1],
                                     node.y + directions[i][2])]
    IN  SelectSeq(cand, LAMBDA n : InGrid(n.x, n.y))

\* The cells a position is compared with: the body, without its last
\* segment when ignore_tail holds and the body has more than one segment.
snake_grid_positions(body, ignore_tail) ==
    LET cells == [i \in 1..Len(body) |->
                     pixel_to_grid(body[i][1], body[i][2])]
    IN  IF ignore_tail /\ Len(cells) > 1
        THEN SubSeq(cells, 1, Len(cells) - 1)
        ELSE cells

\* Mutant: the body's pixel coordinates are compared without conversion.
is_safe_position_unconverted(x, y, body, ignore_tail) ==
    \A i \in 1..(IF ignore_tail /\ Len(body) > 1 THEN Len(body) - 1 ELSE Len(body)) :
        body[i] # <<x, y>>

\* Mutant: the tail is never dropped from the compared positions.
is_safe_position_keep_tail(x, y, body, ignore_tail) ==
    \A i \in 1..Len(body) : pixel_to_grid(body[i][1], body[i][2]) # <<x, y>>

is_safe_position(x, y, body, ignore_tail) ==
    LET positions == snake_grid_positions(body, ignore_tail)
    IN  \A i \in 1..Len(positions) : positions[i] # <<x, y>>

\* The pixel coordinates met following parent from goal_node (lines 206-212).
RECURSIVE follow_parents(_)
follow_parents(current) ==
    IF Len(current.parent) = 0
    THEN << grid_to_pixel(current.x, current.y) >>
    ELSE << grid_to_pixel(current.x, current.y) >> \o follow_parents(current.parent[1])

reverse(path) == [i \in 1..Len(path) |-> path[Len(path) + 1 - i]]

\* Mutant: the path is not reversed.
reconstruct_path_unreversed(goal_node) == follow_parents(goal_node)

reconstruct_path(goal_node) == reverse(follow_parents(goal_node))

\* The first node of the open set equal to neighbor, or None.
existing_neighbor(open_set, neighbor) ==
    LET hits == SelectSeq(open_set, LAMBDA n : NodeEq(n, neighbor))
    IN  IF Len(hits) = 0 THEN None ELSE << hits[1] >>

\* Mutant: the closed set is not consulted.
explore_neighbor_no_closed(open_set, closed_set, neighbor, current_node, goal_node, body) ==
    IF ~is_safe_position(neighbor.x, neighbor.y, body, TRUE)
    THEN open_set
    ELSE LET tentative_g_cost == current_node.g_cost + 1
             existing == existing_neighbor(open_set, neighbor)
             h  == manhattan_distance(neighbor, goal_node)
             nb == [neighbor EXCEPT !.g_cost = tentative_g_cost,
                                    !.h_cost = h,
                                    !.f_cost = tentative_g_cost + h,
                                    !.parent = << current_node >>]
         IN  IF Len(existing) = 0 THEN heappush(open_set, nb) ELSE open_set

\* Mutant: a neighbour equal to the goal bypasses the obstacle check.
explore_neighbor_goal_exempt(open_set, closed_set, neighbor, current_node, goal_node, body) ==
    IF <<neighbor.x, neighbor.y>> \in closed_set
    THEN open_set
    ELSE IF ~NodeEq(neighbor, goal_node)
            /\ ~is_safe_position(neighbor.x, neighbor.y, body, TRUE)
    THEN open_set
    ELSE LET tentative_g_cost == current_node.g_cost + 1
             existing == existing_neighbor(open_set, neighbor)
             h  == manhattan_distance(neighbor, goal_node)
             nb == [neighbor EXCEPT !.g_cost = tentative_g_cost,
                                    !.h_cost = h,
                                    !.f_cost = tentative_g_cost + h,
                                    !.parent = << current_node >>]
         IN  IF Len(existing) = 0 THEN heappush(open_set, nb) ELSE open_set

\* Mutant: the neighbour is pushed whether or not an equal node is in the open
\* set already.
explore_neighbor_push_always(open_set, closed_set, neighbor, current_node, goal_node, body) ==
    IF <<neighbor.x, neighbor.y>> \in closed_set
    THEN open_set
    ELSE IF ~is_safe_position(neighbor.x, neighbor.y, body, TRUE)
    THEN open_set
    ELSE LET tentative_g_cost == current_node.g_cost + 1
             h  == manhattan_distance(neighbor, goal_node)
             nb == [neighbor EXCEPT !.g_cost = tentative_g_cost,
                                    !.h_cost = h,
                                    !.f_cost = tentative_g_cost + h,
                                    !.parent = << current_node >>]
         IN  heappush(open_set, nb)

\* One pass of the neighbour loop's body (lines 170-196): the open set after
\* neighbor has been looked at from current_node.
explore_neighbor(open_set, closed_set, neighbor, current_node, goal_node, body) ==
    IF <<neighbor.x, neighbor.y>> \in closed_set
    THEN open_set
    ELSE IF ~is_safe_position(neighbor.x, neighbor.y, body, TRUE)
    THEN open_set
    ELSE LET tentative_g_cost == current_node.g_cost + 1
             existing == existing_neighbor(open_set, neighbor)
         IN  IF Len(existing) = 0 \/ tentative_g_cost < existing[1].g_cost
             THEN LET h  == manhattan_distance(neighbor, goal_node)
                      nb == [neighbor EXCEPT !.g_cost = tentative_g_cost,
                                             !.h_cost = h,
                                             !.f_cost = tentative_g_cost + h,
                                             !.parent = << current_node >>]
                  IN  \* the fresh neighbor is updated; it enters the open
                      \* set only when no equal node is there already
                      IF Len(existing) = 0 THEN heappush(open_set, nb) ELSE open_set
             ELSE open_set

RECURSIVE explore_neighbors(_, _, _, _, _, _, _)
explore_neighbors(open_set, closed_set, neighbors, i, current_node, goal_node, body) ==
    IF i > Len(neighbors)
    THEN open_set
    ELSE explore_neighbors(
             explore_neighbor(open_set, closed_set, neighbors[i],
                              current_node, goal_node, body),
             closed_set, neighbors, i + 1, current_node, goal_node, body)

\* The state of the search loop: the open set (a heap), the closed set (the
\* cells of its nodes), whether find_path has returned, and what it returned.
search_start(start_pos) ==
    LET start_grid == pixel_to_grid(start_pos[1], start_pos[2])
    IN  [open_set   |-> heappush(<< >>, Node(start_grid[1], start_grid[2])),
         closed_set |-> {},
         returned   |-> FALSE,
         path       |-> None,
         expanded   |-> 0]

\* One iteration of `while open_set` (lines 159-196), or the return of None
\* when the open set is empty (line 199).
search_step(st, goal_pos, body) ==
    IF Len(st.open_set) = 0
    THEN [st EXCEPT !.returned = TRUE, !.path = None]
    ELSE LET goal_grid    == pixel_to_grid(goal_pos[1], goal_pos[2])
             goal_node    == Node(goal_grid[1], goal_grid[2])
             popped       == heappop(st.open_set)
             current_node == popped.item
             closed       == st.closed_set \cup {<<current_node.x, current_node.y>>}
         IN  IF NodeEq(current_node, goal_node)
             THEN [st EXCEPT !.open_set = popped.heap,
                             !.closed_set = closed,
                             !.expanded = @ + 1,
                             !.returned = TRUE,
                             !.path = reconstruct_path(current_node)]
             ELSE [st EXCEPT !.open_set =
                                 explore_neighbors(popped.heap, closed,
                                                   get_neighbors(current_node), 1,
                                                   current_node, goal_node, body),
                             !.closed_set = closed,
                             !.expanded = @ + 1]

RECURSIVE search_run(_, _, _)
search_run(st, goal_pos, body) ==
    IF st.returned
    THEN st
    ELSE search_run(search_step(st, goal_pos, body), goal_pos, body)

find_path(start_pos, goal_pos, body) ==
    search_run(search_start(start_pos), goal_pos, body).path

\* Mutant: the signs of the deltas are read the wrong way round.
get_next_direction_swapped(current_pos, target_pos) ==
    LET dx == target_pos[1] - current_pos[1]
        dy == target_pos[2] - current_pos[2]
    IN  IF dx > 0 THEN "LEFT"
        ELSE IF dx < 0 THEN "RIGHT"
        ELSE IF dy > 0 THEN "UP"
        ELSE IF dy < 0 THEN "DOWN"
        ELSE "RIGHT"

get_next_direction(current_pos, target_pos) ==
    LET dx == target_pos[1] - current_pos[1]
        dy == target_pos[2] - current_pos[2]
    IN  IF dx > 0 THEN "RIGHT"
        ELSE IF dx < 0 THEN "LEFT"
        ELSE IF dy > 0 THEN "DOWN"
        ELSE IF dy < 0 THEN "UP"
        ELSE "RIGHT"

find_safe_path_to_tail(snake_head, body) ==
    IF Len(body) < 2
    THEN None
    ELSE find_path(snake_head, body[Len(body)],
                   SubSeq(body, 1, Len(body) - 1))

\* ---------------------------------------------------------------- SnakeAI
scan_directions == << "UP", "DOWN", "LEFT", "RIGHT" >>

step_of(dir) ==
    CASE dir = "UP"    -> << 0, -10 >>
      [] dir = "DOWN"  -> << 0, 10 >>
      [] dir = "LEFT"  -> << -10, 0 >>
      [] dir = "RIGHT" -> << 10, 0 >>

moved(pos, dir) ==
    << pos[1] + step_of(dir)[1], pos[2] + step_of(dir)[2] >>

\* Mutant: the boundary test of the scan is missing.
make_safe_move_no_bounds(snake_head, body) ==
    LET safe(d) == LET next_pos == moved(snake_head, d)
                       grid_pos == pixel_to_grid(next_pos[1], next_pos[2])
                   IN  is_safe_position(grid_pos[1], grid_pos[2], body, TRUE)
        ok == SelectSeq(scan_directions, safe)
    IN  IF Len(ok) > 0 THEN ok[1] ELSE "RIGHT"

make_safe_move(snake_head, body) ==
    LET safe(d) == LET next_pos == moved(snake_head, d)
                       grid_pos == pixel_to_grid(next_pos[1], next_pos[2])
                   IN  /\ InGrid(grid_pos[1], grid_pos[2])
                       /\ is_safe_position(grid_pos[1], grid_pos[2], body, TRUE)
        ok == SelectSeq(scan_directions, safe)
    IN  IF Len(ok) > 0 THEN ok[1] ELSE "RIGHT"

\* Mutant: the tail-seeking step is skipped.
get_next_move_no_tail(snake_head, food_pos, body) ==
    LET path == find_path(snake_head, food_pos, body)
    IN  IF Len(path) > 1
        THEN get_next_direction(snake_head, path[2])
        ELSE make_safe_move(snake_head, body)

get_next_move(snake_head, food_pos, body) ==
    LET path == find_path(snake_head, food_pos, body)
    IN  IF Len(path) > 1
        THEN get_next_direction(snake_head, path[2])
        ELSE LET tail_path == find_safe_path_to_tail(snake_head, body)
             IN  IF Len(tail_path) > 1
                 THEN get_next_direction(snake_head, tail_path[2])
                 ELSE make_safe_move(snake_head, body)

\* ------------------------------------------------- bounds of the inputs
\* The grid and the longest body of the exhaustively enumerated calls.
SearchCols == 4
SearchRows == 3
MaxBody == 5
\* The grid and the longest body of the searches that are followed step by
\* step.
StepCols == 4
StepRows == 3
StepBody == 4
\* The grid of the calls whose body is a long hook along the walls: the head
\* runs down, then left, then up, then right, each run of at least one
\* step and at most these lengths.
HookCols == 7
HookRows == 5
HookDown == 3
HookLeft == 5
HookUp == 2
HookRight == 1

\* The grid and the longest body of the calls of get_next_move alone, whose
\* bodies are long enough to shut the head in.
TrapCols == 3
TrapRows == 3
TrapBody == 7

\* The window and the longest body of the single ticks.
TickCols == 4
TickRows == 3
TickBody == 5

\* The grid of the coordinate conversions.
MapCols == 6
MapRows == 4

\* The grid and the longest body of the searches whose open set is followed
\* entry by entry: wide enough for a cell to be found twice.
FrontierCols == 5
FrontierRows == 4
FrontierBody == 4

\* ----------------------------------------------------------------- inputs
Cells == (0..(grid_cols - 1)) \X (0..(grid_rows - 1))

Adjacent(a, b) == abs(a[1] - b[1]) + abs(a[2] - b[2]) = 1

CellsOf(body) == { body[i] : i \in 1..Len(body) }

\* The simple 4-connected chains of exactly n cells, head first.
RECURSIVE ChainsOfLen(_)
ChainsOfLen(n) ==
    IF n = 1
    THEN { << c >> : c \in Cells }
    ELSE UNION { { Append(ch, c) : c \in { d \in Cells : /\ Adjacent(d, ch[Len(ch)])
                                                         /\ d \notin CellsOf(ch) } }
                 : ch \in ChainsOfLen(n - 1) }

ChainsUpTo(longest) == UNION { ChainsOfLen(n) : n \in 1..longest }

\* The cells of a run of n steps from cell c (c excluded).
Run(c, step, n) == [i \in 1..n |-> << c[1] + i * step[1], c[2] + i * step[2] >>]

LastOf(seq) == seq[Len(seq)]

\* The hook that starts at head and runs a cells down, b left, c up, d right.
Hook(head, a, b, c, d) ==
    LET s1 == << head >> \o Run(head, <<0, 1>>, a)
        s2 == s1 \o Run(LastOf(s1), <<-1, 0>>, b)
        s3 == s2 \o Run(LastOf(s2), <<0, -1>>, c)
    IN  s3 \o Run(LastOf(s3), <<1, 0>>, d)

IsChain(cells) ==
    /\ \A i \in 1..Len(cells) : cells[i] \in Cells
    /\ \A i, j \in 1..Len(cells) : i # j => cells[i] # cells[j]
    /\ \A i \in 1..(Len(cells) - 1) : Adjacent(cells[i], cells[i + 1])

Hooks ==
    { h \in { Hook(head, a, b, c, d) : head \in Cells, a \in 1..HookDown,
                                       b \in 1..HookLeft, c \in 1..HookUp,
                                       d \in 1..HookRight } : IsChain(h) }

ToPixels(cells) == [i \in 1..Len(cells) |-> grid_to_pixel(cells[i][1], cells[i][2])]

DirectionOf(body) ==
    IF Len(body) < 2 THEN "RIGHT"
    ELSE get_next_direction(body[2], body[1])

NoCall == [fn |-> "none", start |-> << >>, goal |-> << >>, body |-> << >>]

NoSearch == [open_set |-> << >>, closed_set |-> {}, returned |-> FALSE,
             path |-> None, expanded |-> 0]

\* A game state with the given body and food in which the calls are made.
InputState(body, food) ==
    /\ snake_body = ToPixels(body)
    /\ snake_position = snake_body[1]
    /\ fruit_position = grid_to_pixel(food[1], food[2])
    /\ direction = DirectionOf(snake_body)
    /\ change_to = direction
    /\ score = 0
    /\ game_mode = "ai"
    /\ game_over_state = FALSE
    /\ ticks = 0
    /\ pc = "ready"
    /\ call = NoCall
    /\ search = NoSearch
    /\ ai_direction = ""

SearchInit ==
    /\ grid_cols = SearchCols
    /\ grid_rows = SearchRows
    /\ \E body \in ChainsUpTo(MaxBody), food \in Cells : InputState(body, food)

StepInit ==
    /\ grid_cols = StepCols
    /\ grid_rows = StepRows
    /\ \E body \in ChainsUpTo(StepBody), food \in Cells : InputState(body, food)

TrapInit ==
    /\ grid_cols = TrapCols
    /\ grid_rows = TrapRows
    /\ \E body \in ChainsUpTo(TrapBody), food \in Cells : InputState(body, food)

FrontierInit ==
    /\ grid_cols = FrontierCols
    /\ grid_rows = FrontierRows
    /\ \E body \in ChainsUpTo(FrontierBody), food \in Cells : InputState(body, food)

HookInit ==
    /\ grid_cols = HookCols
    /\ grid_rows = HookRows
    /\ \E body \in Hooks, food \in Cells : InputState(body, food)

\* ------------------------------------------------- coordinate conversions
\* The argument of a conversion, call.start, is any pair inside the window:
\* a pixel position, aligned to the cells or not, or (when it is inside the
\* grid) a cell.
MapInit ==
    /\ grid_cols = MapCols
    /\ grid_rows = MapRows
    /\ snake_body = << <<0, 0>> >>
    /\ snake_position = snake_body[1]
    /\ fruit_position = << 10, 10 >>
    /\ direction = "RIGHT"
    /\ change_to = "RIGHT"
    /\ score = 0
    /\ game_mode = "manual"
    /\ game_over_state = FALSE
    /\ ticks = 0
    /\ pc = "ready"
    /\ \E arg \in (0..(window_x - 1)) \X (0..(window_y - 1)) :
          call = [fn |-> "none", start |-> arg, goal |-> << >>, body |-> << >>]
    /\ search = NoSearch
    /\ ai_direction = ""

CallPixelToGrid ==
    /\ pc = "ready"
    /\ call' = [call EXCEPT !.fn = "pixel_to_grid",
                            !.goal = pixel_to_grid(call.start[1], call.start[2])]
    /\ pc' = "returned"
    /\ UNCHANGED << pathfinderVars, gameVars, search, ai_direction >>

CallGridToPixel ==
    /\ pc = "ready"
    /\ call' = [call EXCEPT !.fn = "grid_to_pixel",
                            !.goal = grid_to_pixel(call.start[1], call.start[2])]
    /\ pc' = "returned"
    /\ UNCHANGED << pathfinderVars, gameVars, search, ai_direction >>

MapNext == CallPixelToGrid \/ CallGridToPixel

MapSpec == MapInit /\ [][MapNext]_vars

\* ------------------------------------------------------------------ calls
\* find_path(snake_head, food_pos, snake_body), as get_next_move calls it.
CallFindPath ==
    /\ pc = "ready"
    /\ call' = [fn |-> "find_path", start |-> snake_position,
                goal |-> fruit_position, body |-> snake_body]
    /\ search' = search_run(search_start(snake_position), fruit_position, snake_body)
    /\ pc' = "returned"
    /\ UNCHANGED << pathfinderVars, gameVars, ai_direction >>

\* The find_path call of find_safe_path_to_tail (bodies of 2 segments or more;
\* for a shorter body find_safe_path_to_tail returns None without a search).
CallFindPathToTail ==
    /\ pc = "ready"
    /\ Len(snake_body) >= 2
    /\ LET tail_pos == snake_body[Len(snake_body)]
           obstacles == SubSeq(snake_body, 1, Len(snake_body) - 1)
       IN  /\ call' = [fn |-> "find_path", start |-> snake_position,
                       goal |-> tail_pos, body |-> obstacles]
           /\ search' = search_run(search_start(snake_position), tail_pos, obstacles)
    /\ pc' = "returned"
    /\ UNCHANGED << pathfinderVars, gameVars, ai_direction >>

CallGetNextMove ==
    /\ pc = "ready"
    /\ call' = [fn |-> "get_next_move", start |-> snake_position,
                goal |-> fruit_position, body |-> snake_body]
    /\ ai_direction' = get_next_move(snake_position, fruit_position, snake_body)
    /\ pc' = "returned"
    /\ UNCHANGED << pathfinderVars, gameVars, search >>

SearchNext == CallFindPath \/ CallFindPathToTail \/ CallGetNextMove

SearchSpec == SearchInit /\ [][SearchNext]_vars

HookSpec == HookInit /\ [][SearchNext]_vars

\* Calls of get_next_move only.
TrapNext == CallGetNextMove

TrapSpec == TrapInit /\ [][TrapNext]_vars

\* --------------------------------------------------- the search, by steps
\* find_path entered with the arguments of get_next_move's first call.
BeginFindPath ==
    /\ pc = "ready"
    /\ call' = [fn |-> "find_path", start |-> snake_position,
                goal |-> fruit_position, body |-> snake_body]
    /\ search' = search_start(snake_position)
    /\ pc' = "searching"
    /\ UNCHANGED << pathfinderVars, gameVars, ai_direction >>

\* find_path entered with the arguments find_safe_path_to_tail gives it.
BeginFindPathToTail ==
    /\ pc = "ready"
    /\ Len(snake_body) >= 2
    /\ call' = [fn |-> "find_path", start |-> snake_position,
                goal |-> snake_body[Len(snake_body)],
                body |-> SubSeq(snake_body, 1, Len(snake_body) - 1)]
    /\ search' = search_start(snake_position)
    /\ pc' = "searching"
    /\ UNCHANGED << pathfinderVars, gameVars, ai_direction >>

\* One iteration of the search loop, or its exit.
SearchStep ==
    /\ pc = "searching"
    /\ search' = search_step(search, call.goal, call.body)
    /\ pc' = IF search'.returned THEN "returned" ELSE "searching"
    /\ UNCHANGED << pathfinderVars, gameVars, call, ai_direction >>

StepNext == BeginFindPath \/ BeginFindPathToTail \/ SearchStep

StepSpec == StepInit /\ [][StepNext]_vars

FrontierSpec == FrontierInit /\ [][StepNext]_vars

\* ------------------------------------------------------------- SnakeGame
\* Mutant: the ranges start at 0.
FruitPositions_from_zero ==
    { << i * 10, j * 10 >> : i \in 0..((window_x \div 10) - 1),
                             j \in 0..((window_y \div 10) - 1) }

\* The cells random.randrange(1, window // 10) * 10 can give the food.
FruitPositions ==
    { << i * 10, j * 10 >> : i \in 1..((window_x \div 10) - 1),
                             j \in 1..((window_y \div 10) - 1) }

\* Mutant: the score survives the reset.
reset_game_keep_score ==
    /\ snake_position' = << 100, 50 >>
    /\ snake_body' = << <<100, 50>>, <<90, 50>>, <<80, 50>>, <<70, 50>> >>
    /\ fruit_position' \in FruitPositions
    /\ direction' = "RIGHT"
    /\ change_to' = "RIGHT"
    /\ score' = score
    /\ ticks' = 0

\* reset_game; the food is drawn at random.
reset_game ==
    /\ snake_position' = << 100, 50 >>
    /\ snake_body' = << <<100, 50>>, <<90, 50>>, <<80, 50>>, <<70, 50>> >>
    /\ fruit_position' \in FruitPositions
    /\ direction' = "RIGHT"
    /\ change_to' = "RIGHT"
    /\ score' = 0
    /\ ticks' = 0

\* SnakeGame.__init__ (which builds SnakeAI(window_x, window_y), hence the
\* pathfinder's grid) and the first lines of run.
Init ==
    /\ grid_cols = MaxCols
    /\ grid_rows = MaxRows
    /\ snake_position = << 100, 50 >>
    /\ snake_body = << <<100, 50>>, <<90, 50>>, <<80, 50>>, <<70, 50>> >>
    /\ fruit_position \in FruitPositions
    /\ direction = "RIGHT"
    /\ change_to = "RIGHT"
    /\ score = 0
    /\ game_mode = "manual"
    /\ game_over_state = FALSE
    /\ ticks = 0
    /\ pc = "game"
    /\ call = NoCall
    /\ search = NoSearch
    /\ ai_direction = ""

\* handle_events, K_SPACE: the mode is toggled.
KeySpace ==
    /\ game_mode' = IF game_mode = "manual" THEN "ai" ELSE "manual"
    /\ UNCHANGED << pathfinderVars, snake_position, snake_body, fruit_position,
                    direction, change_to, score, game_over_state, ticks, callVars >>

\* handle_events, K_r: the game is reset; run's game_over_state is not touched.
KeyReset ==
    /\ reset_game
    /\ UNCHANGED << pathfinderVars, game_mode, game_over_state, callVars >>

\* handle_events, an arrow key in manual mode.
KeyArrow(key) ==
    /\ game_mode = "manual"
    /\ change_to' = key
    /\ UNCHANGED << pathfinderVars, snake_position, snake_body, fruit_position,
                    direction, score, game_mode, game_over_state, ticks, callVars >>

\* run's game-over branch reading K_r itself: reset and leave game over.
RestartFromGameOver ==
    /\ game_over_state
    /\ reset_game
    /\ game_over_state' = FALSE
    /\ UNCHANGED << pathfinderVars, game_mode, callVars >>

\* Mutant: the requested direction is taken as it is.
validate_direction_unchecked(current, requested) == requested

\* update_direction's validation (lines 183-190): a 180-degree turn is ignored.
validate_direction(current, requested) ==
    IF requested = "UP" /\ current # "DOWN" THEN "UP"
    ELSE IF requested = "DOWN" /\ current # "UP" THEN "DOWN"
    ELSE IF requested = "LEFT" /\ current # "RIGHT" THEN "LEFT"
    ELSE IF requested = "RIGHT" /\ current # "LEFT" THEN "RIGHT"
    ELSE current

move_snake(pos, dir) ==
    IF dir = "UP" THEN << pos[1], pos[2] - 10 >>
    ELSE IF dir = "DOWN" THEN << pos[1], pos[2] + 10 >>
    ELSE IF dir = "LEFT" THEN << pos[1] - 10, pos[2] >>
    ELSE IF dir = "RIGHT" THEN << pos[1] + 10, pos[2] >>
    ELSE pos

\* The body after check_food_collision: the new head is inserted and the
\* tail is popped unless the head is on the food.
\* Mutant: the tail is popped on every tick, food or not.
body_after_move_always_pop(pos, food, body) ==
    SubSeq(<< pos >> \o body, 1, Len(body))

body_after_move(pos, food, body) ==
    IF pos = food
    THEN << pos >> \o body
    ELSE SubSeq(<< pos >> \o body, 1, Len(body))

\* Mutant: the far walls are one cell too near (>= in place of >).
check_collisions_near_wall(pos, body) ==
    \/ pos[1] < 0 \/ pos[1] >= window_x - 10
    \/ pos[2] < 0 \/ pos[2] >= window_y - 10
    \/ \E i \in 2..Len(body) : body[i] = pos

\* Mutant: only the walls are tested, not the body.
check_collisions_walls_only(pos, body) ==
    \/ pos[1] < 0 \/ pos[1] > window_x - 10
    \/ pos[2] < 0 \/ pos[2] > window_y - 10

check_collisions(pos, body) ==
    \/ pos[1] < 0 \/ pos[1] > window_x - 10
    \/ pos[2] < 0 \/ pos[2] > window_y - 10
    \/ \E i \in 2..Len(body) : body[i] = pos

\* One pass of run's loop body while not game over: update_direction,
\* move_snake, check_food_collision, check_collisions.
Tick ==
    /\ ~game_over_state
    /\ ticks < MaxTicks
    /\ LET requested == IF game_mode = "ai"
                        THEN get_next_move(snake_position, fruit_position, snake_body)
                        ELSE change_to
           dir == validate_direction(direction, requested)
           pos == move_snake(snake_position, dir)
       IN  /\ change_to' = requested
           /\ direction' = dir
           /\ snake_position' = pos
           /\ snake_body' = body_after_move(pos, fruit_position, snake_body)
           /\ score' = IF pos = fruit_position THEN score + 10 ELSE score
           /\ IF pos = fruit_position
              THEN fruit_position' \in FruitPositions
              ELSE fruit_position' = fruit_position
           /\ game_over_state' = check_collisions(pos, snake_body')
    /\ ticks' = ticks + 1
    /\ UNCHANGED << pathfinderVars, game_mode, callVars >>

Next ==
    \/ KeySpace
    \/ KeyReset
    \/ \E key \in {"UP", "DOWN", "LEFT", "RIGHT"} : KeyArrow(key)
    \/ RestartFromGameOver
    \/ Tick

Spec == Init /\ [][Next]_vars

\* --------------------------------------------------------------- Snake.py
\* The manual game of Snake.py: module-level state and one main loop.  pc is
\* "main" while the loop runs and "quit" once game_over() has ended the
\* program; Snake.py has no pathfinder, grid_cols and grid_rows only give
\* its window.
SnakeInit ==
    /\ grid_cols = MaxCols
    /\ grid_rows = MaxRows
    /\ snake_position = << 100, 50 >>
    /\ snake_body = << <<100, 50>>, <<90, 50>>, <<80, 50>>, <<70, 50>> >>
    /\ fruit_position \in FruitPositions
    /\ direction = "RIGHT"
    /\ change_to = "RIGHT"
    /\ score = 0
    /\ game_mode = "manual"
    /\ game_over_state = FALSE
    /\ ticks = 0
    /\ pc = "main"
    /\ call = NoCall
    /\ search = NoSearch
    /\ ai_direction = ""

\* The event loop (lines 105-114): an arrow key sets change_to.
SnakeKey(key) ==
    /\ pc = "main"
    /\ change_to' = key
    /\ UNCHANGED << pathfinderVars, snake_position, snake_body, fruit_position,
                    direction, score, game_mode, game_over_state, ticks, callVars >>

\* Lines 119-126: four independent ifs, each reading the direction the
\* earlier ones may have set.
main_direction(current, requested) ==
    LET d1 == IF requested = "UP" /\ current # "DOWN" THEN "UP" ELSE current
        d2 == IF requested = "DOWN" /\ d1 # "UP" THEN "DOWN" ELSE d1
        d3 == IF requested = "LEFT" /\ d2 # "RIGHT" THEN "LEFT" ELSE d2
    IN  IF requested = "RIGHT" /\ d3 # "LEFT" THEN "RIGHT" ELSE d3

\* Lines 129-136: four independent ifs on the direction.
main_move(pos, dir) ==
    LET p1 == IF dir = "UP" THEN << pos[1], pos[2] - 10 >> ELSE pos
        p2 == IF dir = "DOWN" THEN << p1[1], p1[2] + 10 >> ELSE p1
        p3 == IF dir = "LEFT" THEN << p2[1] - 10, p2[2] >> ELSE p2
    IN  IF dir = "RIGHT" THEN << p3[1] + 10, p3[2] >> ELSE p3

\* Mutant: only the x coordinates of head and fruit are compared.
main_body_same_column(pos, food, body) ==
    IF pos[1] = food[1]
    THEN << pos >> \o body
    ELSE SubSeq(<< pos >> \o body, 1, Len(body))

\* Lines 141-146: the head is inserted; the tail is popped unless the head is
\* on the fruit.
main_body(pos, food, body) ==
    IF pos[1] = food[1] /\ pos[2] = food[2]
    THEN << pos >> \o body
    ELSE SubSeq(<< pos >> \o body, 1, Len(body))

\* Lines 162-171: whether game_over() is called.
main_game_over(pos, body) ==
    \/ pos[1] < 0 \/ pos[1] > window_x - 10
    \/ pos[2] < 0 \/ pos[2] > window_y - 10
    \/ \E i \in 2..Len(body) : pos[1] = body[i][1] /\ pos[2] = body[i][2]

\* One pass of the main loop after the events (lines 119-180).
SnakeTick ==
    /\ pc = "main"
    /\ ticks < MaxTicks
    /\ LET dir == main_direction(direction, change_to)
           pos == main_move(snake_position, dir)
           ate == pos[1] = fruit_position[1] /\ pos[2] = fruit_position[2]
       IN  /\ direction' = dir
           /\ snake_position' = pos
           /\ snake_body' = main_body(pos, fruit_position, snake_body)
           /\ score' = IF ate THEN score + 10 ELSE score
           /\ IF ate
              THEN fruit_position' \in FruitPositions
              ELSE fruit_position' = fruit_position
           /\ game_over_state' = main_game_over(pos, snake_body')
           /\ pc' = IF game_over_state' THEN "quit" ELSE "main"
    /\ ticks' = ticks + 1
    /\ UNCHANGED << pathfinderVars, change_to, game_mode, call, search, ai_direction >>

\* ------------------------------------------------- both games, by the keys
\* snake_ai.py's tick, as distinct from Snake.py's.
GameTick == pc = "game" /\ Tick

GameKeyReset == pc = "game" /\ KeyReset

GameKeyArrow(key) == pc = "game" /\ KeyArrow(key)

GameRestart == pc = "game" /\ RestartFromGameOver

\* Either program from its start, played with the arrow keys and R; SPACE is
\* never pressed, so the search is never run.
PlayInit == Init \/ SnakeInit

PlayNext ==
    \/ GameKeyReset
    \/ \E key \in {"UP", "DOWN", "LEFT", "RIGHT"} : GameKeyArrow(key)
    \/ GameRestart
    \/ GameTick
    \/ \E key \in {"UP", "DOWN", "LEFT", "RIGHT"} : SnakeKey(key)
    \/ SnakeTick

PlaySpec == PlayInit /\ [][PlayNext]_vars

\* ------------------------------------------------------ one tick, any body
\* The last tick before MaxTicks of either program, from every running state
\* of a small window: the body a simple chain of 4 to TickBody segments, the
\* direction the one the head last moved in, the food on a cell it can be
\* spawned on, any requested direction (in AI mode get_next_move supplies it).
TickInit ==
    /\ grid_cols = TickCols
    /\ grid_rows = TickRows
    /\ \E body \in UNION { ChainsOfLen(n) : n \in 4..TickBody },
          requested \in {"UP", "DOWN", "LEFT", "RIGHT"},
          prog \in {<<"game", "manual">>, <<"game", "ai">>, <<"main", "manual">>} :
          /\ snake_body = ToPixels(body)
          /\ snake_position = snake_body[1]
          /\ fruit_position \in FruitPositions
          /\ direction = DirectionOf(snake_body)
          /\ prog[2] = "ai" => requested = direction
          /\ change_to = requested
          /\ score = 10 * (Len(body) - 4)
          /\ game_mode = prog[2]
          /\ game_over_state = FALSE
          /\ ticks = MaxTicks - 1
          /\ pc = prog[1]
          /\ call = NoCall
          /\ search = NoSearch
          /\ ai_direction = ""

TickNext == GameTick \/ SnakeTick

TickSpec == TickInit /\ [][TickNext]_vars

\* ============================================================== properties
\* The cells that block a search: the body without its last segment (the
\* whole body when it has one segment).
Blocked(body) ==
    { pixel_to_grid(body[i][1], body[i][2]) :
        i \in 1..(IF Len(body) > 1 THEN Len(body) - 1 ELSE Len(body)) }

CellOf(pos) == pixel_to_grid(pos[1], pos[2])

\* Breadth-first distance (in steps) from the frontier to goal through cells
\* of the grid that are not blocked; -1 when goal cannot be reached.
RECURSIVE BfsDist(_, _, _, _, _)
BfsDist(frontier, seen, goal, blocked, d) ==
    IF goal \in frontier THEN d
    ELSE IF frontier = {} THEN -1
    ELSE LET next == { c \in Cells \ (seen \cup blocked) :
                         \E f \in frontier : Adjacent(c, f) }
         IN  BfsDist(next, seen \cup next, goal, blocked, d + 1)

\* The start cell is where the route begins, blocked or not.
ShortestSteps(start, goal, blocked) == BfsDist({start}, {start}, goal, blocked, 0)

FindPathReturned == pc = "returned" /\ call.fn = "find_path"

PathFound == FindPathReturned /\ search.path # None

CallSteps == ShortestSteps(CellOf(call.start), CellOf(call.goal), Blocked(call.body))

\* The body is a simple chain of segments inside the window.
SimpleInBoundsChain(body) ==
    /\ \A i \in 1..Len(body) :
          /\ 0 <= body[i][1] /\ body[i][1] <= window_x - 10
          /\ 0 <= body[i][2] /\ body[i][2] <= window_y - 10
    /\ \A i, j \in 1..Len(body) : i # j => body[i] # body[j]
    /\ \A i \in 1..(Len(body) - 1) : Adjacent(CellOf(body[i]), CellOf(body[i + 1]))

\* Whether the tick that is given direction d (update_direction's validation,
\* move_snake, check_food_collision, check_collisions) ends the game.
TickEndsGame(d) ==
    LET pos == move_snake(snake_position, validate_direction(direction, d))
    IN  check_collisions(pos, body_after_move(pos, fruit_position, snake_body))

\* C1: in AI mode, from a running state whose body is a simple in-bounds chain
\* of at least 4 segments and in which some direction can be applied for one
\* tick without a collision, the tick that applies the direction returned by
\* get_next_move does not end the game.
C1_ChosenMoveSafe ==
    [][(/\ game_mode = "ai"
        /\ ~game_over_state
        /\ ticks' = ticks + 1
        /\ Len(snake_body) >= 4
        /\ SimpleInBoundsChain(snake_body)
        /\ \E d \in {"UP", "DOWN", "LEFT", "RIGHT"} : ~TickEndsGame(d))
       => ~game_over_state']_vars

\* C2: whenever find_path returns a path, its number of cells is the minimum
\* over all 4-connected in-bounds paths from start to goal that avoid the
\* obstacle cells of the search.
C2_PathIsShortest ==
    PathFound => Len(search.path) = CallSteps + 1

\* C3: when the body is only the head cell, find_path returns a path whose
\* cell count is the Manhattan distance between start and goal plus 1.
C3_FreeGridManhattan ==
    (FindPathReturned /\ Len(call.body) = 1) =>
        /\ search.path # None
        /\ Len(search.path) = abs(CellOf(call.start)[1] - CellOf(call.goal)[1])
                              + abs(CellOf(call.start)[2] - CellOf(call.goal)[2]) + 1

C3_Witness ==
    /\ FindPathReturned /\ Len(call.body) = 1
    /\ CellOf(call.start)[1] # CellOf(call.goal)[1]
    /\ CellOf(call.start)[2] # CellOf(call.goal)[2]
    /\ Len(search.path) >= 5

\* C4: a returned path begins at the start cell, ends at the goal cell, stays
\* inside the grid and moves one step in one axis between consecutive cells;
\* when start equals goal it is the single start cell.
C4_PathWellFormed ==
    PathFound =>
        LET p == search.path
        IN  /\ Len(p) >= 1
            /\ p[1] = call.start
            /\ p[Len(p)] = call.goal
            /\ \A i \in 1..Len(p) : CellOf(p[i]) \in Cells /\ p[i] = grid_to_pixel(CellOf(p[i])[1], CellOf(p[i])[2])
            /\ \A i \in 1..(Len(p) - 1) : Adjacent(CellOf(p[i]), CellOf(p[i + 1]))
            /\ (call.start = call.goal => p = << call.start >>)

C4_Witness == PathFound /\ Len(search.path) >= 4 /\ Len(call.body) >= 3

\* C5 (as claimed): no cell of a returned path, excluding the goal, is in the
\* obstacle set of the search.
C5_NoObstacleButGoal ==
    PathFound =>
        \A i \in 1..Len(search.path) :
            CellOf(search.path[i]) # CellOf(call.goal)
                => CellOf(search.path[i]) \notin Blocked(call.body)

\* C5 (amended): no cell of a returned path after its first cell (the start,
\* which is the head and is in the obstacle set) is in the obstacle set of
\* the search; this includes the goal.
C5_NoObstacleAfterStart ==
    PathFound =>
        \A i \in 2..Len(search.path) :
            CellOf(search.path[i]) \notin Blocked(call.body)

C5_Witness ==
    /\ PathFound /\ Len(call.body) >= 4
    /\ Len(search.path) >= 5
    /\ Len(search.path) >
         abs(CellOf(call.start)[1] - CellOf(call.goal)[1])
         + abs(CellOf(call.start)[2] - CellOf(call.goal)[2]) + 1

\* Some in-bounds neighbour of the goal can be reached from the start through
\* cells outside the obstacle set.
GoalNeighbourReachable ==
    \E n \in Cells :
        /\ Adjacent(n, CellOf(call.goal))
        /\ n \notin Blocked(call.body) \/ n = CellOf(call.start)
        /\ ShortestSteps(CellOf(call.start), n, Blocked(call.body)) >= 0

\* C6 (as claimed): a goal on a blocked body segment with a reachable
\* neighbour is still reached.
C6_GoalExempt ==
    (/\ FindPathReturned
     /\ CellOf(call.goal) \in Blocked(call.body)
     /\ GoalNeighbourReachable)
        => /\ search.path # None
           /\ search.path[Len(search.path)] = call.goal

\* C6 (amended): the goal cell is not exempt from the obstacle check: when
\* the goal is in the obstacle set and is not the start cell, find_path
\* returns None, also when a neighbour of the goal is reachable.
C6_GoalNotExempt ==
    (/\ FindPathReturned
     /\ CellOf(call.goal) \in Blocked(call.body)
     /\ CellOf(call.goal) # CellOf(call.start))
        => search.path = None

C6_Witness ==
    /\ FindPathReturned
    /\ CellOf(call.goal) \in Blocked(call.body)
    /\ CellOf(call.goal) # CellOf(call.start)
    /\ GoalNeighbourReachable
    /\ search.expanded >= 3

\* C7: when the goal is not in the obstacle set, find_path returns None
\* exactly when the goal cannot be reached from the start by in-bounds
\* 4-directional steps through cells outside the obstacle set.
C7_Complete ==
    (FindPathReturned /\ CellOf(call.goal) \notin Blocked(call.body)) =>
        (search.path = None <=> CallSteps = -1)

C7_Witness ==
    /\ FindPathReturned
    /\ CellOf(call.goal) \notin Blocked(call.body)
    /\ search.path = None
    /\ search.expanded >= 2

\* C8: find_path terminates: every iteration of the search loop either
\* returns (a path, or None when the frontier is empty) or expands one more
\* cell, and no cell of the grid is expanded twice, so the loop ends after at
\* most grid_cols * grid_rows expansions.
C8_Terminates ==
    /\ [](/\ search.closed_set \subseteq Cells
          /\ search.expanded = Cardinality(search.closed_set)
          /\ search.expanded <= grid_cols * grid_rows)
    /\ [][SearchStep => \/ search'.returned
                        \/ search'.expanded = search.expanded + 1]_vars

C8_Witness ==
    /\ pc = "returned" /\ search.path = None
    /\ Len(search.open_set) = 0
    /\ search.expanded >= 6
    /\ Len(call.body) >= 3

MoveReturned == pc = "returned" /\ call.fn = "get_next_move"

FoodPath == find_path(call.start, call.goal, call.body)

TailPath == find_safe_path_to_tail(call.start, call.body)

\* C9: when the search to the food yields no path or a single-cell path and
\* the search to the tail yields a path of at least 2 cells, get_next_move
\* returns the direction from the head to the second cell of the tail path.
C9_TailStepChosen ==
    (MoveReturned /\ Len(FoodPath) <= 1 /\ Len(TailPath) >= 2) =>
        /\ ai_direction \in {"UP", "DOWN", "LEFT", "RIGHT"}
        /\ moved(call.start, ai_direction) = TailPath[2]

\* The food is enclosed: not on an obstacle, and out of reach; the tail step
\* differs from what the last-resort scan would return.
C9_Witness ==
    /\ MoveReturned
    /\ CellOf(call.goal) \notin Blocked(call.body)
    /\ CallSteps = -1
    /\ Len(TailPath) >= 3
    /\ make_safe_move(call.start, call.body) # ai_direction

\* C10: when the search to the food returns a path of at least 2 cells,
\* moving the head one cell in the direction get_next_move returns lands on
\* the second cell of that path.
C10_FoodStepChosen ==
    (MoveReturned /\ Len(FoodPath) >= 2) =>
        /\ ai_direction \in {"UP", "DOWN", "LEFT", "RIGHT"}
        /\ moved(call.start, ai_direction) = FoodPath[2]

C10_Witness ==
    /\ MoveReturned
    /\ Len(call.body) >= 4
    /\ Len(FoodPath) >= 4
    /\ ai_direction = "UP"

\* The find_path call made by find_safe_path_to_tail has returned.
TailSearchReturned ==
    /\ pc = "returned" /\ call.fn = "find_path"
    /\ Len(snake_body) >= 2
    /\ call.goal = snake_body[Len(snake_body)]
    /\ call.body = SubSeq(snake_body, 1, Len(snake_body) - 1)

\* C11: in the tail-seeking search every body segment other than the tail
\* blocks the search: no cell of a returned tail path after its first cell
\* (the head) is the cell of a non-tail body segment, the second-to-last
\* segment included.
C11_TailPathAvoidsBody ==
    (TailSearchReturned /\ search.path # None) =>
        \A i \in 2..Len(search.path) :
            \A j \in 1..(Len(snake_body) - 1) :
                CellOf(search.path[i]) # CellOf(snake_body[j])

\* The cells of all the segments of the body, the tail included.
AllBodyCells(body) == { CellOf(body[i]) : i \in 1..Len(body) }

\* The body encloses the food and the tail's cell is the only opening: the
\* food is on no segment, cannot be reached from the head when every
\* segment blocks, and can be reached once the tail's cell is free.
EnclosedButForTail ==
    /\ Len(call.body) >= 2
    /\ CellOf(call.goal) \notin AllBodyCells(call.body)
    /\ ShortestSteps(CellOf(call.start), CellOf(call.goal),
                     AllBodyCells(call.body)) = -1
    /\ CallSteps >= 0

\* C12 (as claimed): when the body encloses the food and the only opening is
\* the tail's cell, find_path from head to food returns no path and
\* get_next_move takes the tail-seeking step.
C12_EnclosedFoodNoPath ==
    (MoveReturned /\ EnclosedButForTail) =>
        /\ FoodPath = None
        /\ Len(TailPath) >= 2 => moved(call.start, ai_direction) = TailPath[2]

\* C12 (amended): in that situation find_path does return a path from head
\* to food, which passes through the tail's cell (the tail is not in the
\* obstacle set), and get_next_move returns the first step of that path.
C12_EnclosedFoodThroughTail ==
    (MoveReturned /\ EnclosedButForTail) =>
        /\ Len(FoodPath) >= 2
        /\ \E i \in 1..Len(FoodPath) :
               CellOf(FoodPath[i]) = CellOf(call.body[Len(call.body)])
        /\ moved(call.start, ai_direction) = FoodPath[2]

C12_Witness ==
    /\ MoveReturned /\ EnclosedButForTail
    /\ Len(call.body) >= 4
    /\ Len(FoodPath) >= 4

\* Whether the cell one step from the head in direction d is inside the grid
\* and outside the obstacle set (the body without its tail).
FreeStep(d) ==
    LET c == CellOf(moved(call.start, d))
    IN  c \in Cells /\ c \notin Blocked(call.body)

\* The first direction, in the order UP, DOWN, LEFT, RIGHT, with a free
\* step; RIGHT when there is none.
LastResort ==
    IF FreeStep("UP") THEN "UP"
    ELSE IF FreeStep("DOWN") THEN "DOWN"
    ELSE IF FreeStep("LEFT") THEN "LEFT"
    ELSE "RIGHT"

\* C13: get_next_move always returns one of UP, DOWN, LEFT, RIGHT; when
\* neither search yields a step it returns the first direction in the order
\* UP, DOWN, LEFT, RIGHT whose cell is in the grid and not in the obstacle
\* set, and RIGHT when there is no such direction.
C13_TotalWithLastResort ==
    MoveReturned =>
        /\ ai_direction \in {"UP", "DOWN", "LEFT", "RIGHT"}
        /\ (Len(FoodPath) <= 1 /\ Len(TailPath) <= 1) => ai_direction = LastResort

\* Neither search yields a step, UP and DOWN are barred and LEFT is free.
C13_Witness ==
    /\ MoveReturned
    /\ Len(FoodPath) <= 1 /\ Len(TailPath) <= 1
    /\ Len(call.body) >= 5
    /\ ~FreeStep("UP") /\ ~FreeStep("DOWN") /\ FreeStep("LEFT")
    /\ ai_direction = "LEFT"

Opposite(d) ==
    CASE d = "UP"    -> "DOWN"
      [] d = "DOWN"  -> "UP"
      [] d = "LEFT"  -> "RIGHT"
      [] d = "RIGHT" -> "LEFT"

\* C15: on every tick of either game the direction after the tick is never
\* the opposite of the direction before it: a requested direction (change_to
\* after the tick; in AI mode the move get_next_move returned) that is the
\* opposite is ignored and the direction kept, and any other requested
\* direction becomes the direction.
C15_ReverseIgnored ==
    [][ticks' = ticks + 1 =>
          /\ direction' # Opposite(direction)
          /\ change_to' = Opposite(direction) => direction' = direction
          /\ change_to' # Opposite(direction) => direction' = change_to']_vars

\* A tick of snake_ai.py has kept the direction against a requested reversal.
C15_Witness ==
    /\ pc = "game"
    /\ ticks = MaxTicks
    /\ change_to = Opposite(direction)
    /\ ~game_over_state

\* The head moves into the cell the tail leaves on this tick: the new head
\* is the old tail's cell, no food is eaten and no other segment is there.
IntoVacatedTail ==
    /\ ticks' = ticks + 1
    /\ snake_position' = snake_body[Len(snake_body)]
    /\ snake_position' # fruit_position
    /\ \A i \in 1..(Len(snake_body) - 1) : snake_body[i] # snake_position'

\* C16: a tick of either game ends the game exactly when the new head, after
\* the move has been applied and the body updated, is outside the grid or
\* equals another segment of the body; the new head is the old head moved one
\* cell in the direction of the tick, and a move into the cell the tail
\* vacates on the same tick does not end the game.
C16_GameOverIffCollision ==
    [][ticks' = ticks + 1 =>
          /\ snake_position' = moved(snake_position, direction')
          /\ snake_body'[1] = snake_position'
          /\ game_over_state' <=>
                 \/ CellOf(snake_position') \notin Cells
                 \/ \E i \in 2..Len(snake_body') : snake_body'[i] = snake_position'
          /\ IntoVacatedTail => ~game_over_state']_vars

\* A tick of snake_ai.py has ended the game with the head inside the grid, on
\* another segment.
C16_Witness ==
    /\ pc = "game"
    /\ ticks = MaxTicks
    /\ game_over_state
    /\ CellOf(snake_position) \in Cells
    /\ \E i \in 2..Len(snake_body) : snake_body[i] = snake_position

\* For the record: IntoVacatedTail happens (this property is violated).
NeverIntoVacatedTail == [][~IntoVacatedTail]_vars

\* C17: on every tick of either game the new head is prepended to the body;
\* when the new head is on the food the score grows (by 10), the tail is kept
\* (the body is one longer) and a food cell is spawned inside the grid;
\* otherwise the tail is dropped and the length of the body, the score and the
\* food are unchanged.
C17_GrowOrShift ==
    [][ticks' = ticks + 1 =>
          /\ snake_body'[1] = snake_position'
          /\ IF snake_position' = fruit_position
             THEN /\ score' = score + 10
                  /\ snake_body' = << snake_position' >> \o snake_body
                  /\ Len(snake_body') = Len(snake_body) + 1
                  /\ CellOf(fruit_position') \in Cells
             ELSE /\ snake_body' = << snake_position' >>
                                   \o SubSeq(snake_body, 1, Len(snake_body) - 1)
                  /\ Len(snake_body') = Len(snake_body)
                  /\ score' = score
                  /\ fruit_position' = fruit_position]_vars

\* A tick of snake_ai.py has eaten the food: the body is longer than any
\* body a tick starts from.
C17_Witness ==
    /\ pc = "game"
    /\ ticks = MaxTicks
    /\ Len(snake_body) = TickBody + 1
    /\ score = 10 * (TickBody - 3)
    /\ ~game_over_state

\* The game's state is as reset_game leaves it (the food apart).
Reinitialized ==
    /\ snake_position = << 100, 50 >>
    /\ snake_body = << <<100, 50>>, <<90, 50>>, <<80, 50>>, <<70, 50>> >>
    /\ direction = "RIGHT"
    /\ change_to = "RIGHT"
    /\ score = 0

\* C18: in snake_ai.py game over is left only by a reset, and every R key
\* delivered while the game is over, whichever reader consumes it
\* (handle_events: KeyReset; the game-over loop of run: RestartFromGameOver),
\* reinitializes the state and returns the game to running.
C18_ResetFromGameOver ==
    [][game_over_state =>
          /\ ~game_over_state' => (KeyReset \/ RestartFromGameOver)
          /\ (KeyReset \/ RestartFromGameOver) =>
                 (~game_over_state' /\ Reinitialized')]_vars

\* The cells of the grid outside column 0 and row 0.
SpawnCells == { c \in Cells : c[1] >= 1 /\ c[2] >= 1 }

\* C19 (as claimed): the food is never outside the grid and the cells it can
\* be spawned on (at reset and after each eaten food) are all the cells of
\* the grid, those of column 0 and row 0 included.
C19_SpawnAnyCell ==
    /\ CellOf(fruit_position) \in Cells
    /\ { CellOf(p) : p \in FruitPositions } = Cells

\* C19 (amended): the food is never outside the grid and never in column 0
\* or row 0, it is aligned to the cells, and the cells it can be spawned on are
\* exactly the cells of the grid with column and row at least 1.
C19_SpawnCellsFromOne ==
    /\ CellOf(fruit_position) \in SpawnCells
    /\ fruit_position = grid_to_pixel(CellOf(fruit_position)[1],
                                      CellOf(fruit_position)[2])
    /\ { CellOf(p) : p \in FruitPositions } = SpawnCells

\* After a food has been eaten in snake_ai.py the new food is on the last
\* cell of the last row.
C19_Witness ==
    /\ pc = "game"
    /\ score >= 10
    /\ CellOf(fruit_position) = << grid_cols - 1, grid_rows - 1 >>

Aligned(p) == p[1] % cell_size = 0 /\ p[2] % cell_size = 0

\* C20: for every cell c of the grid pixel_to_grid(grid_to_pixel(c)) = c, and
\* for every pixel position p inside the window and aligned to the cell size
\* grid_to_pixel(pixel_to_grid(p)) = p.
C20_RoundTrip ==
    /\ (pc = "returned" /\ call.fn = "grid_to_pixel" /\ call.start \in Cells) =>
           pixel_to_grid(call.goal[1], call.goal[2]) = call.start
    /\ (pc = "returned" /\ call.fn = "pixel_to_grid" /\ Aligned(call.start)) =>
           grid_to_pixel(call.goal[1], call.goal[2]) = call.start

\* An aligned pixel position away from the origin has been converted to its
\* cell, which is not the pixel position itself.
C20_Witness ==
    /\ pc = "returned" /\ call.fn = "pixel_to_grid"
    /\ Aligned(call.start)
    /\ call.start[1] >= 2 * cell_size /\ call.start[2] >= cell_size
    /\ call.goal # call.start
    /\ call.goal \in Cells

\* The node the next iteration of the search loop pops (the open set is not
\* empty).
NextPopped == heappop(search.open_set)

\* C21: when the search loop expands a node and a neighbour's cell is already
\* in the open set with a recorded g_cost strictly greater than the node's
\* g_cost + 1, the open set's entry for that cell has, after the iteration,
\* the new g_cost, h_cost and f_cost and the expanded node as parent; and
\* every node popped from the open set carries as g_cost the length of the
\* shortest route from the start through cells outside the obstacle set.
C21_FrontierEntryUpdated ==
    [][(pc = "searching" /\ Len(search.open_set) > 0) =>
          LET cur  == NextPopped.item
              rest == NextPopped.heap
              goal_node == Node(CellOf(call.goal)[1], CellOf(call.goal)[2])
          IN  /\ cur.g_cost = ShortestSteps(CellOf(call.start), << cur.x, cur.y >>,
                                            Blocked(call.body))
              /\ ~NodeEq(cur, goal_node) =>
                     \A i \in 1..Len(rest) :
                         (/\ Adjacent(<< rest[i].x, rest[i].y >>, << cur.x, cur.y >>)
                          /\ cur.g_cost + 1 < rest[i].g_cost)
                         => LET entry == existing_neighbor(search'.open_set, rest[i])
                                h == manhattan_distance(rest[i], goal_node)
                            IN  /\ Len(entry) = 1
                                /\ entry[1].g_cost = cur.g_cost + 1
                                /\ entry[1].h_cost = h
                                /\ entry[1].f_cost = cur.g_cost + 1 + h
                                /\ entry[1].parent = << cur >>]_vars

\* The cells of the nodes of an open set.
OpenCells(open_set) == { << open_set[i].x, open_set[i].y >> : i \in 1..Len(open_set) }

\* C22: during a run of find_path a cell is expanded at most once: at every
\* step the open set holds at most one node per cell and no cell is both in
\* the open set and in the closed set; the node an iteration pops is of a
\* cell not expanded before, and no cell expanded so far (the popped one
\* included) is in the open set after the iteration.
C22_ExpandedAtMostOnce ==
    /\ [](/\ \A i, j \in 1..Len(search.open_set) :
                 i # j => ~NodeEq(search.open_set[i], search.open_set[j])
          /\ OpenCells(search.open_set) \cap search.closed_set = {})
    /\ [][(pc = "searching" /\ Len(search.open_set) > 0) =>
             LET cur == NextPopped.item
             IN  /\ << cur.x, cur.y >> \notin search.closed_set
                 /\ search'.closed_set = search.closed_set \cup {<< cur.x, cur.y >>}
                 /\ OpenCells(search'.open_set) \cap search'.closed_set = {}]_vars

\* The search is under way around a body: cells have been expanded, several
\* nodes wait in the open set, and one of them is next to two expanded cells
\* (it has been found a second time and was not pushed again).
C22_Witness ==
    /\ pc = "searching"
    /\ Len(call.body) >= 3
    /\ search.expanded >= 4
    /\ Len(search.open_set) >= 3
    /\ \E c \in OpenCells(search.open_set) :
           Cardinality({ d \in search.closed_set : Adjacent(c, d) }) >= 2

\* The snake is well formed: the head is the first segment, the segments are
\* inside the window, pairwise distinct and each next to the one before it,
\* and the direction is the step from the second segment to the head.
WellFormed ==
    /\ Len(snake_body) >= 2
    /\ snake_position = snake_body[1]
    /\ SimpleInBoundsChain(snake_body)
    /\ direction \in {"UP", "DOWN", "LEFT", "RIGHT"}
    /\ moved(snake_body[2], direction) = snake_body[1]

\* C23: whenever the game is running (at the start of every tick, from the
\* initial or a reset state, after any manual or AI ticks and any keys), the
\* snake is well formed.
C23_RunningSnakeWellFormed ==
    ~game_over_state => WellFormed

\* The game is running in AI mode after ticks that have eaten a food and
\* turned the snake: the body is longer than at the start and not straight.
C23_Witness ==
    /\ ~game_over_state
    /\ game_mode = "ai"
    /\ ticks >= 3
    /\ Len(snake_body) >= 5
    /\ direction # "RIGHT"
    /\ \E i \in 1..Len(snake_body) : snake_body[i][2] # snake_body[1][2]
    /\ \E i \in 1..Len(snake_body) : snake_body[i][1] # snake_body[1][1]

\* A step that resets the game after at least one tick: ticks counts the
\* ticks since the last reset, and only reset_game returns it to 0.  (A reset
\* before the first tick finds the score 0 and the body of 4 segments and
\* leaves them so, as every step that is not a tick does.)
ResetStep == ticks > 0 /\ ticks' = 0

\* The score is a multiple of 10 and the body has 4 + score / 10 segments.
LengthMatchesScore ==
    /\ score % 10 = 0
    /\ Len(snake_body) = 4 + score \div 10

\* C24: before and after every step of either game the score is a multiple of
\* 10 and the body has 4 + score / 10 segments; the score counts the foods eaten
\* since the last reset: a reset sets it to 0 (and the body to 4 segments), a
\* tick adds 10 exactly when the new head is on the food, and no other step
\* changes the score or the body; between resets the body never gets shorter.
C24_ScoreCountsFoods ==
    [][/\ LengthMatchesScore /\ LengthMatchesScore'
       /\ ResetStep => (score' = 0 /\ Len(snake_body') = 4)
       /\ ticks' = ticks + 1 =>
             score' = IF snake_position' = fruit_position THEN score + 10 ELSE score
       /\ (~ResetStep /\ ticks' # ticks + 1) =>
             (score' = score /\ snake_body' = snake_body)
       /\ ~ResetStep => Len(snake_body') >= Len(snake_body)]_vars

\* snake_ai.py after two foods have been eaten since the last reset.
C24_Witness ==
    /\ pc = "game"
    /\ score = 20
    /\ Len(snake_body) = 6
    /\ ~game_over_state

\* C25: while snake_ai.py is in game over no tick is applied and the game
\* state is frozen: over every step that starts and ends in game over,
\* whatever key it handles (SPACE, an arrow, R), the body, the head position,
\* the direction, the score and the food are unchanged.
C25_FrozenInGameOver ==
    [][(game_over_state /\ game_over_state') =>
          /\ ticks' # ticks + 1
          /\ UNCHANGED << snake_body, snake_position, direction, score,
                          fruit_position >>]_vars

\* C26: in manual mode a tick of snake_ai.py and a tick of Snake.py agree:
\* from the same state (body, head, direction, score, food) with the same
\* requested direction, the direction, the new head, the body and the
\* game-over verdict computed by the one program equal those computed by the
\* other, and every tick taken by either program leaves exactly that
\* direction, head, body and verdict, adds 10 to the score exactly when the
\* head is on the food, and then (and only then) draws a new food from the
\* same cells.
C26_ManualTickAgrees ==
    [][(ticks' = ticks + 1 /\ game_mode = "manual") =>
          LET dir_ai  == validate_direction(direction, change_to)
              dir_py  == main_direction(direction, change_to)
              pos_ai  == move_snake(snake_position, dir_ai)
              pos_py  == main_move(snake_position, dir_py)
              body_ai == body_after_move(pos_ai, fruit_position, snake_body)
              body_py == main_body(pos_py, fruit_position, snake_body)
              over_ai == check_collisions(pos_ai, body_ai)
              over_py == main_game_over(pos_py, body_py)
          IN  /\ dir_ai = dir_py /\ direction' = dir_ai
              /\ pos_ai = pos_py /\ snake_position' = pos_ai
              /\ body_ai = body_py /\ snake_body' = body_ai
              /\ over_ai = over_py /\ game_over_state' = over_ai
              /\ change_to' = change_to
              /\ IF pos_ai = fruit_position
                 THEN score' = score + 10 /\ fruit_position' \in FruitPositions
                 ELSE score' = score /\ fruit_position' = fruit_position]_vars

\* A tick of Snake.py has turned the snake and eaten the food.
C26_Witness ==
    /\ pc = "main"
    /\ ticks = MaxTicks
    /\ Len(snake_body) = TickBody + 1
    /\ direction = change_to
    /\ moved(snake_body[3], direction) # snake_body[2]
    /\ ~game_over_state

=============================================================================
